---- MODULE Spec2Model ----
(***************************************************************************)
(* Model of the EGSA utility cost / efficiency engine                      *)
(* (src/egsa/utils/egsa_calculator.py).                                    *)
(*                                                                         *)
(* Numbers.  Usage, benchmark, hour and outdoor temperature are integer    *)
(* valued.  A rate is held in thousandths (0.12 is 120), a multiplying     *)
(* factor in thousandths (1.5 is 1500), and every cost in millionths of a  *)
(* currency unit, so that cost = usage * rate * factor is exact integer    *)
(* arithmetic, as Decimal multiplication is exact in the source.  A float  *)
(* that the source turns into a Decimal through str() is held to three     *)
(* decimal places (FactorOfFloat); the source keeps 17 significant digits. *)
(***************************************************************************)
EXTENDS Integers, Sequences, FiniteSets, TLC

VARIABLES calculator, cost_calls, last, now, analyzer, analyses, result,
          global_analyzer, instances, histories, appended, pc, held

\* the analyzer, the count of its completed analyses, its last call
avars == <<analyzer, analyses, result>>

\* the module's _global_analyzer (0 is None, else the number of an
\* instance), the number of EGSAAnalyzer instances constructed by
\* get_analyzer, the length of each instance's analysis_history, the number
\* of records appended in all, and for each thread where it is in
\* get_analyzer and the instance its last call returned
gvars == <<global_analyzer, instances, histories, appended, pc, held>>

vars == <<calculator, cost_calls, last, now, avars, gvars>>

(* ------------------------------ bounds --------------------------------- *)
MaxLog == 2
MaxTime == 1
MaxHistory == 2
MaxThreads == 2

(* ------------------------------ inputs --------------------------------- *)
UtilityTypes == {"electricity", "gas", "steam", "air_conditioning"}
Identifiers == UtilityTypes \cup {"unknown", "Electricity"}
\* usages costed, and usages rated against a benchmark
Usages == {-1, 0, 5}
RatedUsages == {-1, 0, 4, 5, 6, 7}
Benchmarks == {-1, 0, 5, 6}
MonthlyUsages == {0, 300, 301, 500, 501, 1000}
Hours == {0, 10, 16, 17, 18, 21, 22, 23}
Temps == {-20, 0, 10, 40, 64, 65, 70, 100}
\* keyword arguments of a constructor: none, or the rate in thousandths
Kwargs == {<< >>, <<0>>, <<200>>}
\* a dict without keys
EmptyDict == [k \in {} |-> 0]
\* the utility_data mappings analysed: well formed ones, among them one with
\* an hour and a benchmark, one with a key that names no utility type and one
\* with all four types, and ones in which an entry has no 'usage'
WellFormedData ==
    {[electricity |-> [usage |-> 1000]],
     [electricity |-> [usage |-> 400, hour |-> 18, benchmark |-> 380]],
     [electricity |-> [usage |-> 400]],
     [gas |-> [usage |-> 100, outdoor_temp |-> 0], steam |-> [usage |-> 40],
      water |-> [usage |-> 10]],
     [electricity |-> [usage |-> 300],
      gas |-> [usage |-> 120, benchmark |-> 150],
      steam |-> [usage |-> 60, benchmark |-> 60],
      air_conditioning |-> [usage |-> 240, outdoor_temp |-> 100]]}
MalformedData ==
    {[electricity |-> [usage |-> 400], gas |-> [outdoor_temp |-> 0]],
     [electricity |-> [benchmark |-> 400]]}
UtilityData == WellFormedData \cup MalformedData
\* steam usages that cost 11.70, 13.00, 95, 100, 110 and 115
SteamUsages == {468, 520, 3800, 4000, 4400, 4600}
\* the start and end dates of a report
Dates == 0..MaxTime

(* ----------------------------- arithmetic ------------------------------ *)
Max(a, b) == IF a >= b THEN a ELSE b

\* a / b rounded to the nearest integer, b > 0, ties to the even neighbour
RoundDiv(a, b) ==
    LET q == a \div b
        r == a % b
    IN  IF 2 * r < b THEN q
        ELSE IF 2 * r > b THEN q + 1
        ELSE IF q % 2 = 0 THEN q ELSE q + 1

\* Decimal(str(num / den)) in thousandths
FactorOfFloat(num, den) == RoundDiv(num * 1000, den)

\* a cost in millionths rounded to 2 decimal places (a multiple of 10000)
Round2(c) == RoundDiv(c, 10000) * 10000

(* ------------------------- binary64 arithmetic ------------------------- *)
\* Python's float is an IEEE 754 binary64: a significand m of at most 53
\* bits and a scale s, the value being m / 2^s; here m is kept odd, so that
\* equal floats are equal records.  Significands and their products need
\* more than 32 bits, so a natural number is kept as a sequence of Digits
\* digits in base Base, the lowest first.
Base == 32768
Digits == 8

RECURSIVE Pow2(_)
Pow2(n) == IF n = 0 THEN 1 ELSE 2 * Pow2(n - 1)

\* the natural number n < 2^31 in digits
Big(n) ==
    <<n % Base, (n \div Base) % Base, n \div (Base * Base), 0, 0, 0, 0, 0>>

\* a * k for a digit k
RECURSIVE BigScaledFrom(_, _, _, _)
BigScaledFrom(a, k, i, carry) ==
    IF i > Digits THEN << >>
    ELSE LET v == a[i] * k + carry
         IN  <<v % Base>> \o BigScaledFrom(a, k, i + 1, v \div Base)

BigScaled(a, k) == BigScaledFrom(a, k, 1, 0)

\* a * Base^n
BigShifted(a, n) == [i \in 1..Digits |-> IF i > n THEN a[i - n] ELSE 0]

\* a * 2^bits
BigShl(a, bits) == BigScaled(BigShifted(a, bits \div 15), Pow2(bits % 15))

\* a + b
RECURSIVE BigPlusFrom(_, _, _, _)
BigPlusFrom(a, b, i, carry) ==
    IF i > Digits THEN << >>
    ELSE LET v == a[i] + b[i] + carry
         IN  <<v % Base>> \o BigPlusFrom(a, b, i + 1, v \div Base)

BigPlus(a, b) == BigPlusFrom(a, b, 1, 0)

\* a * b
RECURSIVE BigProductFrom(_, _, _)
BigProductFrom(a, b, i) ==
    IF i > Digits THEN Big(0)
    ELSE BigPlus(BigShifted(BigScaled(b, a[i]), i - 1),
                 BigProductFrom(a, b, i + 1))

BigProduct(a, b) == BigProductFrom(a, b, 1)

\* a < b
RECURSIVE BigLessFrom(_, _, _)
BigLessFrom(a, b, i) ==
    IF i = 0 THEN FALSE
    ELSE IF a[i] # b[i] THEN a[i] < b[i]
    ELSE BigLessFrom(a, b, i - 1)

BigLess(a, b) == BigLessFrom(a, b, Digits)

\* quotient and remainder of a by d, d < 2^16
\* (BigDividedFrom gives the remainder first, then the quotient's digits)
RECURSIVE BigDividedFrom(_, _, _, _)
BigDividedFrom(a, d, i, rem) ==
    IF i = 0 THEN <<rem>>
    ELSE Append(BigDividedFrom(a, d, i - 1, (rem * Base + a[i]) % d),
                (rem * Base + a[i]) \div d)

BigDivided(a, d) ==
    LET all == BigDividedFrom(a, d, Digits, 0)
    IN  [q |-> Tail(all), r |-> Head(all)]

\* a / 2^bits rounded down, and whether anything was rounded off
BigShr(a, bits) ==
    LET n == bits \div 15
        whole == [i \in 1..Digits |-> IF i + n <= Digits THEN a[i + n] ELSE 0]
        part == BigDivided(whole, Pow2(bits % 15))
    IN  [q |-> part.q,
         sticky |-> part.r # 0 \/ \E i \in 1..Digits : i <= n /\ a[i] # 0]

\* the number of bits of a
RECURSIVE BitsOfDigit(_)
BitsOfDigit(d) == IF d = 0 THEN 0 ELSE 1 + BitsOfDigit(d \div 2)

BitLength(a) ==
    LET used == {i \in 1..Digits : a[i] # 0}
    IN  IF used = {} THEN 0
        ELSE LET top == CHOOSE i \in used : \A j \in used : j <= i
             IN  15 * (top - 1) + BitsOfDigit(a[top])

\* m / 2^s with the factors of two taken out of m
RECURSIVE BigOdd(_, _)
BigOdd(m, s) ==
    IF m[1] % 2 = 1 \/ BitLength(m) = 0 THEN [m |-> m, s |-> s]
    ELSE BigOdd(BigDivided(m, 2).q, s - 1)

\* the binary64 nearest to p / 2^s, a half going to the even significand;
\* sticky says the true value is a little above p / 2^s
Rounded(p, sticky, s) ==
    LET t == BitLength(p) - 53
    IN  IF t <= 0 THEN BigOdd(p, s)
        ELSE LET cut == BigShr(p, t - 1)
                 halved == BigDivided(cut.q, 2)
                 up == /\ halved.r = 1
                       /\ sticky \/ cut.sticky \/ halved.q[1] % 2 = 1
             IN  BigOdd(IF up THEN BigPlus(halved.q, Big(1)) ELSE halved.q,
                        s - t)

\* the binary64 of k / 2^s for a natural number k < 2^31, which needs no
\* rounding
RECURSIVE Odd(_, _)
Odd(k, s) ==
    IF k % 2 = 1 \/ k = 0 THEN [m |-> Big(k), s |-> s]
    ELSE Odd(k \div 2, s - 1)

\* float(Decimal) and the float literals of the source: the binary64
\* nearest to n millionths, 0 <= n < 2^31.  A million is 2^6 * 15625, so a
\* multiple of 15625 millionths is a number of 64ths and is exact.
Float(n) ==
    IF n % 15625 = 0 THEN Odd(n \div 15625, 6)
    ELSE LET thousandths == BigDivided(BigShl(Big(n), 75), 1000)
             units == BigDivided(thousandths.q, 1000)
         IN  Rounded(units.q, thousandths.r # 0 \/ units.r # 0, 75)

\* x * y in binary64
FloatTimes(x, y) == Rounded(BigProduct(x.m, y.m), FALSE, x.s + y.s)

\* x < y in binary64
FloatLess(x, y) ==
    IF x.s <= y.s
    THEN BigLess(BigShl(x.m, y.s - x.s), y.m)
    ELSE BigLess(x.m, BigShl(y.m, x.s - y.s))

(* ----------------------------- calculators ----------------------------- *)
\* calculators with two classes exchanged
calculators_swapped ==
    [utility_type \in UtilityTypes |->
        CASE utility_type = "electricity" -> "ElectricityCalculator"
          [] utility_type = "gas" -> "SteamCalculator"
          [] utility_type = "steam" -> "GasCalculator"
          [] utility_type = "air_conditioning" -> "AirConditioningCalculator"]

\* the classes the factory knows, by identifier
calculators ==
    [utility_type \in UtilityTypes |->
        CASE utility_type = "electricity" -> "ElectricityCalculator"
          [] utility_type = "gas" -> "GasCalculator"
          [] utility_type = "steam" -> "SteamCalculator"
          [] utility_type = "air_conditioning" -> "AirConditioningCalculator"]

\* the default of each constructor's rate argument, in thousandths
DefaultRate(class) ==
    CASE class = "ElectricityCalculator" -> 120
      [] class = "GasCalculator" -> 450
      [] class = "SteamCalculator" -> 25
      [] class = "AirConditioningCalculator" -> 150

\* UtilityCalculator.__init__ through the subclass constructor
NewCalculator(class, kwargs) ==
    [class |-> class,
     rate_per_unit |-> IF kwargs = << >> THEN DefaultRate(class) ELSE kwargs[1],
     calculation_history |-> << >>]

\* ElectricityCalculator: the peak window and its multiplier (1.5)
peak_hours == <<17, 21>>
peak_rate_multiplier == 1500

\* a base cost (a whole number of thousandths) times a Decimal factor held
\* in thousandths
Times(cost, factor) == (cost \div 1000) * factor

\* Cost with the costs already logged added in, a running total
Cost_running(self, usage) ==
    usage * self.rate_per_unit * 1000
        + (IF self.calculation_history = << >> THEN 0
           ELSE self.calculation_history[Len(self.calculation_history)].cost)

\* the Decimal calculate_cost returns: Decimal(str(usage)) * rate_per_unit
Cost(self, usage) == usage * self.rate_per_unit * 1000

\* the entry calculate_cost appends; float() of a short Decimal is the
\* same number
LogEntry(self, usage, t) ==
    [usage |-> usage, rate |-> self.rate_per_unit,
     cost |-> Cost(self, usage), timestamp |-> t]

\* Logged with the entry put at the head of the log
Logged_prepend(self, usage, t) ==
    [self EXCEPT !.calculation_history = <<LogEntry(self, usage, t)>> \o @]

\* the calculator after calculate_cost(usage) at time t
Logged(self, usage, t) ==
    [self EXCEPT !.calculation_history = Append(@, LogEntry(self, usage, t))]

\* usage / benchmark as a fraction <<numerator, denominator>>, denominator > 0
Ratio(usage, benchmark) ==
    IF benchmark > 0 THEN <<usage, benchmark>> ELSE <<1, 1>>

\* ratio <= tenths / 10
RatioLeq(ratio, tenths) == ratio[1] * 10 <= tenths * ratio[2]

\* Rating with the first threshold exclusive
Rating_strict(self, usage, benchmark) ==
    LET ratio == Ratio(usage, benchmark)
    IN  IF ratio[1] * 10 < 8 * ratio[2] THEN "Excellent"
        ELSE IF RatioLeq(ratio, 10) THEN "Good"
        ELSE IF RatioLeq(ratio, 12) THEN "Average"
        ELSE "Poor"

\* what get_efficiency_rating returns
Rating(self, usage, benchmark) ==
    LET ratio == Ratio(usage, benchmark)
    IN  IF RatioLeq(ratio, 8) THEN "Excellent"
        ELSE IF RatioLeq(ratio, 10) THEN "Good"
        ELSE IF RatioLeq(ratio, 12) THEN "Average"
        ELSE "Poor"

\* Rated by a method that logs the usage it rated
Rated_logging(self, usage, benchmark) ==
    [self EXCEPT !.calculation_history =
        Append(@, [usage |-> usage, rate |-> self.rate_per_unit,
                   cost |-> 0, timestamp |-> 0])]

\* the calculator after get_efficiency_rating: the method assigns nothing
Rated(self, usage, benchmark) == self

\* PeakCost with the last hour of the window left out
PeakCost_exclusive(base_cost, hour) ==
    IF peak_hours[1] <= hour /\ hour < peak_hours[2]
    THEN Times(base_cost, peak_rate_multiplier)
    ELSE base_cost

\* what calculate_peak_cost returns, base_cost being calculate_cost(usage)
PeakCost(base_cost, hour) ==
    IF peak_hours[1] <= hour /\ hour <= peak_hours[2]
    THEN Times(base_cost, peak_rate_multiplier)
    ELSE base_cost

\* HeatingFactor with the difference taken the other way round
HeatingFactor_sign(outdoor_temp) ==
    Max(500, FactorOfFloat(outdoor_temp - 20, 20))

\* GasCalculator: temp_factor = max(0.5, (20 - outdoor_temp) / 20)
HeatingFactor(outdoor_temp) ==
    Max(500, FactorOfFloat(20 - outdoor_temp, 20))

\* CoolingFactor without the 0.8 floor
CoolingFactor_nofloor(outdoor_temp) ==
    FactorOfFloat(outdoor_temp - 70, 30) + 1000

\* CoolingFactor dividing by 20 as the gas formula does
CoolingFactor_div20(outdoor_temp) ==
    Max(800, FactorOfFloat(outdoor_temp - 70, 20) + 1000)

\* AirConditioningCalculator: temp_factor = max(0.8, (outdoor_temp - 70) / 30 + 1)
CoolingFactor(outdoor_temp) ==
    Max(800, FactorOfFloat(outdoor_temp - 70, 30) + 1000)

(* ------------------------------ analyzer ------------------------------- *)
\* the order in which comprehensive_analysis looks for the utility types
Order == <<"electricity", "gas", "steam", "air_conditioning">>

\* d.get(key, default)
Get(d, key, default) == IF key \in DOMAIN d THEN d[key] ELSE default

\* the savings tips, by the key recommend_savings files them under
high_usage == "Consider LED lighting and energy-efficient appliances"
moderate_usage == "Use programmable thermostats"
general == "Unplug devices when not in use"

\* ElectricityCalculator.estimate_carbon_footprint: kwh_usage * 0.5, in
\* tenths of a kg
estimate_carbon_footprint(kwh_usage) == kwh_usage * 5

\* recommend_savings, with the two usage tests chained by elif
recommend_savings_elif(monthly_usage) ==
    (IF monthly_usage > 500 THEN <<high_usage>>
     ELSE IF monthly_usage > 300 THEN <<moderate_usage>> ELSE << >>)
        \o <<general>>

\* recommend_savings with both thresholds inclusive
recommend_savings_inclusive(monthly_usage) ==
    (IF monthly_usage >= 500 THEN <<high_usage>> ELSE << >>)
        \o (IF monthly_usage >= 300 THEN <<moderate_usage>> ELSE << >>)
        \o <<general>>

\* list(recommend_savings(monthly_usage).values()): the dict keeps the order
\* in which the keys were set
recommend_savings(monthly_usage) ==
    (IF monthly_usage > 500 THEN <<high_usage>> ELSE << >>)
        \o (IF monthly_usage > 300 THEN <<moderate_usage>> ELSE << >>)
        \o <<general>>

\* EGSAAnalyzer.__init__
NewAnalyzer ==
    [electricity |-> NewCalculator("ElectricityCalculator", << >>),
     gas |-> NewCalculator("GasCalculator", << >>),
     steam |-> NewCalculator("SteamCalculator", << >>),
     air_conditioning |-> NewCalculator("AirConditioningCalculator", << >>),
     analysis_history |-> << >>]

\* Present, with the steam branch filing no score
Present_nosteam(utility_data) ==
    {t \in UtilityTypes \ {"steam"} : t \in DOMAIN utility_data}

\* the utility types comprehensive_analysis finds in utility_data
Present(utility_data) == {t \in UtilityTypes : t \in DOMAIN utility_data}

\* the place in Order of the first entry that has no 'usage' (the KeyError),
\* 5 when every entry has one
FirstKeyError(utility_data) ==
    LET bad == {i \in 1..4 : /\ Order[i] \in DOMAIN utility_data
                             /\ "usage" \notin DOMAIN utility_data[Order[i]]}
    IN  IF bad = {} THEN 5 ELSE CHOOSE i \in bad : \A j \in bad : i <= j

\* the utility types whose calculate_cost has run when the analysis ends
Costed(utility_data) ==
    {Order[i] : i \in {j \in 1..4 : /\ j < FirstKeyError(utility_data)
                                   /\ Order[j] \in DOMAIN utility_data}}

\* DefaultBenchmark, with the defaults of gas and steam exchanged
DefaultBenchmark_swapped(utility_type) ==
    CASE utility_type = "electricity" -> 400
      [] utility_type = "gas" -> 50
      [] utility_type = "steam" -> 100
      [] utility_type = "air_conditioning" -> 200

\* the benchmark a sample is rated against when it brings none
DefaultBenchmark(utility_type) ==
    CASE utility_type = "electricity" -> 400
      [] utility_type = "gas" -> 100
      [] utility_type = "steam" -> 50
      [] utility_type = "air_conditioning" -> 200

\* the cost comprehensive_analysis adds to total_cost for one utility type
UtilityCost(self, utility_type, data) ==
    CASE utility_type = "electricity" -> Cost(self.electricity, data.usage)
      [] utility_type = "gas" ->
            Times(Cost(self.gas, data.usage),
                  HeatingFactor(Get(data, "outdoor_temp", 20)))
      [] utility_type = "steam" -> Cost(self.steam, data.usage)
      [] utility_type = "air_conditioning" ->
            Times(Cost(self.air_conditioning, data.usage),
                  CoolingFactor(Get(data, "outdoor_temp", 75)))

\* Score, with usage and benchmark passed in each other's place
Score_inverted(self, utility_type, data) ==
    Rating(self[utility_type],
           Get(data, "benchmark", DefaultBenchmark(utility_type)), data.usage)

\* the rating comprehensive_analysis files under one utility type
Score(self, utility_type, data) ==
    Rating(self[utility_type], data.usage,
           Get(data, "benchmark", DefaultBenchmark(utility_type)))

\* total_cost: the costs of the types present, added in Order
TotalCost(self, utility_data) ==
    LET cost(t) == IF t \in DOMAIN utility_data
                   THEN UtilityCost(self, t, utility_data[t]) ELSE 0
    IN  cost(Order[1]) + cost(Order[2]) + cost(Order[3]) + cost(Order[4])

\* Analysis stamped with the time left on the clock instead of the time
Analysis_countdown(self, utility_data, t) ==
    [timestamp |-> MaxTime - t,
     total_cost |-> TotalCost(self, utility_data),
     efficiency_scores |->
        [u \in Present(utility_data) |-> Score(self, u, utility_data[u])],
     recommendations |->
        IF "electricity" \in DOMAIN utility_data
        THEN recommend_savings(utility_data.electricity.usage) ELSE << >>,
     environmental_impact |->
        IF "electricity" \in DOMAIN utility_data
        THEN [k \in {"co2_kg"} |->
                estimate_carbon_footprint(utility_data.electricity.usage)]
        ELSE [k \in {} |-> 0]]

\* the analysis dict comprehensive_analysis builds at time t from a
\* utility_data whose every entry has a usage
Analysis(self, utility_data, t) ==
    [timestamp |-> t,
     total_cost |-> TotalCost(self, utility_data),
     efficiency_scores |->
        [u \in Present(utility_data) |-> Score(self, u, utility_data[u])],
     recommendations |->
        IF "electricity" \in DOMAIN utility_data
        THEN recommend_savings(utility_data.electricity.usage) ELSE << >>,
     environmental_impact |->
        IF "electricity" \in DOMAIN utility_data
        THEN [k \in {"co2_kg"} |->
                estimate_carbon_footprint(utility_data.electricity.usage)]
        ELSE [k \in {} |-> 0]]

\* the analyzer's calculators after the calculate_cost calls of one analysis
CalculatorsLogged(self, utility_data, t) ==
    [f \in DOMAIN self |->
        IF f \in Costed(utility_data)
        THEN Logged(self[f], utility_data[f].usage, t)
        ELSE self[f]]

\* HistoryAppended, with the analysis put in front
HistoryAppended_head(self, analysis) ==
    [self EXCEPT !.analysis_history = <<analysis>> \o @]

\* the analyzer after analysis_history.append(analysis)
HistoryAppended(self, analysis) ==
    [self EXCEPT !.analysis_history = Append(@, analysis)]

\* an analysis dict as comprehensive_analysis first sets it up
NoAnalysis ==
    [timestamp |-> 0, total_cost |-> 0, efficiency_scores |-> EmptyDict,
     recommendations |-> << >>, environmental_impact |-> EmptyDict]

\* Analysed, with the analysis dict appended as soon as it is set up
Analysed_early(self, utility_data, t) ==
    IF FirstKeyError(utility_data) <= 4
    THEN HistoryAppended(CalculatorsLogged(self, utility_data, t),
                         [NoAnalysis EXCEPT !.timestamp = t])
    ELSE HistoryAppended(CalculatorsLogged(self, utility_data, t),
                         Analysis(self, utility_data, t))

\* the analyzer after comprehensive_analysis(utility_data) at time t: an
\* entry without 'usage' raises KeyError before the append is reached
Analysed(self, utility_data, t) ==
    IF FirstKeyError(utility_data) <= 4
    THEN CalculatorsLogged(self, utility_data, t)
    ELSE HistoryAppended(CalculatorsLogged(self, utility_data, t),
                         Analysis(self, utility_data, t))

\* the value _calculate_average_efficiency gives a rating, and the rating
\* it gives back a rounded mean
score_value(score) ==
    CASE score = "Excellent" -> 4
      [] score = "Good" -> 3
      [] score = "Average" -> 2
      [] score = "Poor" -> 1

score_name(value) ==
    CASE value = 4 -> "Excellent"
      [] value = 3 -> "Good"
      [] value = 2 -> "Average"
      [] value = 1 -> "Poor"

\* relevant_analyses, with the end of the period left out
RECURSIVE relevant_analyses_exclusive(_, _, _)
relevant_analyses_exclusive(history, start_date, end_date) ==
    IF history = << >> THEN << >>
    ELSE LET analysis == Head(history)
             rest == relevant_analyses_exclusive(Tail(history), start_date,
                                                 end_date)
         IN  IF start_date <= analysis.timestamp /\ analysis.timestamp < end_date
             THEN <<analysis>> \o rest
             ELSE rest

\* the analyses of the history with start_date <= timestamp <= end_date, in
\* the order of the history
RECURSIVE relevant_analyses(_, _, _)
relevant_analyses(history, start_date, end_date) ==
    IF history = << >> THEN << >>
    ELSE LET analysis == Head(history)
             rest == relevant_analyses(Tail(history), start_date, end_date)
         IN  IF start_date <= analysis.timestamp /\ analysis.timestamp <= end_date
             THEN <<analysis>> \o rest
             ELSE rest

\* sum(analysis['total_cost'] for analysis in analyses)
RECURSIVE SumTotalCost(_)
SumTotalCost(relevant) ==
    IF relevant = << >> THEN 0
    ELSE Head(relevant).total_cost + SumTotalCost(Tail(relevant))

\* efficiency_totals[utility] and efficiency_counts[utility]
RECURSIVE efficiency_totals(_, _)
efficiency_totals(relevant, utility) ==
    IF relevant = << >> THEN 0
    ELSE (IF utility \in DOMAIN Head(relevant).efficiency_scores
          THEN score_value(Head(relevant).efficiency_scores[utility]) ELSE 0)
         + efficiency_totals(Tail(relevant), utility)

RECURSIVE efficiency_counts(_, _)
efficiency_counts(relevant, utility) ==
    IF relevant = << >> THEN 0
    ELSE (IF utility \in DOMAIN Head(relevant).efficiency_scores THEN 1 ELSE 0)
         + efficiency_counts(Tail(relevant), utility)

\* round(avg_value): Python rounds a half to the even neighbour
round(total, count) == RoundDiv(total, count)

\* EGSAAnalyzer._calculate_average_efficiency
calculate_average_efficiency(relevant) ==
    [utility \in {u \in UtilityTypes : efficiency_counts(relevant, u) > 0} |->
        score_name(round(efficiency_totals(relevant, utility),
                         efficiency_counts(relevant, utility)))]

\* the float literals 1.1 and 0.9
Float11 == Float(1100000)
Float09 == Float(900000)

\* EGSAAnalyzer._calculate_cost_trend.  The costs are whole millionths below
\* 2^31 / 11: off the lines recent = 1.1 * older and recent = 0.9 * older they
\* are apart by more than one part in 2^35, which the roundings of binary64
\* (one part in 2^53 each) cannot bridge, so only on those lines is the
\* float arithmetic carried out digit by digit.
calculate_cost_trend(relevant) ==
    IF Len(relevant) < 2 THEN "Insufficient data"
    ELSE LET recent == relevant[Len(relevant)].total_cost
             older == relevant[1].total_cost
             recent_cost == Float(recent)
             older_cost == Float(older)
         IN  IF 10 * recent # 11 * older /\ 10 * recent # 9 * older
             THEN IF 10 * recent > 11 * older THEN "Increasing"
                  ELSE IF 10 * recent < 9 * older THEN "Decreasing"
                  ELSE "Stable"
             ELSE IF FloatLess(FloatTimes(older_cost, Float11), recent_cost)
             THEN "Increasing"
             ELSE IF FloatLess(recent_cost, FloatTimes(older_cost, Float09))
             THEN "Decreasing"
             ELSE "Stable"

\* date.strftime('%Y-%m-%d'): the day of an instant, the time of day dropped;
\* the clock of the model has two instants a day
strftime(date) == date \div 2

\* MonthlyReport, without the early return for an empty period
MonthlyReport_alltime(self, start_date, end_date) ==
    LET relevant == relevant_analyses(self.analysis_history, start_date, end_date)
    IN  IF relevant = << >>
        THEN [error |-> "No data available for the specified period"]
        ELSE [period |-> <<strftime(start_date), strftime(end_date)>>,
              total_cost |-> Float(SumTotalCost(self.analysis_history)),
              average_efficiency |-> calculate_average_efficiency(relevant),
              total_analyses |-> Len(relevant),
              cost_trend |-> calculate_cost_trend(relevant)]

MonthlyReport_noguard(self, start_date, end_date) ==
    LET relevant == relevant_analyses(self.analysis_history, start_date, end_date)
    IN  [period |-> <<strftime(start_date), strftime(end_date)>>,
         total_cost |-> Float(SumTotalCost(relevant)),
         average_efficiency |-> calculate_average_efficiency(relevant),
         total_analyses |-> Len(relevant),
         cost_trend |-> calculate_cost_trend(relevant)]

\* what generate_monthly_report returns
MonthlyReport(self, start_date, end_date) ==
    LET relevant == relevant_analyses(self.analysis_history, start_date, end_date)
    IN  IF relevant = << >>
        THEN [error |-> "No data available for the specified period"]
        ELSE [period |-> <<strftime(start_date), strftime(end_date)>>,
              total_cost |-> Float(SumTotalCost(relevant)),
              average_efficiency |-> calculate_average_efficiency(relevant),
              total_analyses |-> Len(relevant),
              cost_trend |-> calculate_cost_trend(relevant)]

\* Summarized keeping only the records of the period in the history
Summarized_pruning(self, start_date, end_date) ==
    [self EXCEPT !.analysis_history =
        relevant_analyses(@, start_date, end_date)]

\* the analyzer after generate_monthly_report: the method and its two
\* helpers build new lists and dicts and assign nothing on self
Summarized(self, start_date, end_date) == self

NoResult ==
    [op |-> "none", utility_data |-> EmptyDict, start_date |-> 0,
     end_date |-> 0, returned |-> FALSE, raised |-> "",
     analysis |-> NoAnalysis, report |-> EmptyDict]

NoCall == [op |-> "none", utility_type |-> "", usage |-> 0, arg |-> 0,
           cost |-> 0, rating |-> "", recommendations |-> << >>,
           returned |-> FALSE, raised |-> ""]

(* ------------------------------- state --------------------------------- *)
Threads == 1..MaxThreads

\* the module as imported: _global_analyzer = None, no thread in get_analyzer
NoThreads ==
    /\ global_analyzer = 0
    /\ instances = 0
    /\ histories = << >>
    /\ appended = 0
    /\ pc = [t \in Threads |-> "idle"]
    /\ held = [t \in Threads |-> 0]

\* a calculator fresh from the factory, nothing called on it yet
Init ==
    /\ \E utility_type \in UtilityTypes, kwargs \in Kwargs :
          calculator = NewCalculator(calculators[utility_type], kwargs)
    /\ cost_calls = 0
    /\ last = NoCall
    /\ now = 0
    /\ analyzer = NewAnalyzer
    /\ analyses = 0
    /\ result = NoResult
    /\ NoThreads

\* datetime.now() moves on
Tick ==
    /\ now < MaxTime
    /\ now' = now + 1
    /\ UNCHANGED <<calculator, cost_calls, last, avars, gvars>>

\* UtilityCalculatorFactory.create_calculator(utility_type, **kwargs); the
\* caller keeps the new calculator in place of the one it held
create_calculator ==
    \E utility_type \in Identifiers, kwargs \in Kwargs :
        IF utility_type \notin DOMAIN calculators
        THEN /\ last' = [NoCall EXCEPT !.op = "create_calculator",
                                       !.utility_type = utility_type,
                                       !.raised = "ValueError"]
             /\ UNCHANGED <<calculator, cost_calls, now, avars, gvars>>
        ELSE /\ calculator' = NewCalculator(calculators[utility_type], kwargs)
             /\ cost_calls' = 0
             /\ last' = [NoCall EXCEPT !.op = "create_calculator",
                                       !.utility_type = utility_type,
                                       !.returned = TRUE]
             /\ UNCHANGED <<now, avars, gvars>>

calculate_cost ==
    \E usage \in Usages :
        /\ Len(calculator.calculation_history) < MaxLog
        /\ calculator' = Logged(calculator, usage, now)
        /\ cost_calls' = cost_calls + 1
        /\ last' = [NoCall EXCEPT !.op = "calculate_cost", !.usage = usage,
                                  !.cost = Cost(calculator, usage),
                                  !.returned = TRUE]
        /\ UNCHANGED <<now, avars, gvars>>

get_efficiency_rating ==
    \E usage \in RatedUsages, benchmark \in Benchmarks :
        /\ calculator' = Rated(calculator, usage, benchmark)
        /\ last' = [NoCall EXCEPT !.op = "get_efficiency_rating",
                                  !.usage = usage, !.arg = benchmark,
                                  !.rating = Rating(calculator, usage, benchmark),
                                  !.returned = TRUE]
        /\ UNCHANGED <<cost_calls, now, avars, gvars>>

calculate_peak_cost ==
    \E usage \in Usages, hour \in Hours :
        /\ calculator.class = "ElectricityCalculator"
        /\ Len(calculator.calculation_history) < MaxLog
        /\ calculator' = Logged(calculator, usage, now)
        /\ cost_calls' = cost_calls + 1
        /\ last' = [NoCall EXCEPT !.op = "calculate_peak_cost",
                                  !.usage = usage, !.arg = hour,
                                  !.cost = PeakCost(Cost(calculator, usage), hour),
                                  !.returned = TRUE]
        /\ UNCHANGED <<now, avars, gvars>>

calculate_heating_cost ==
    \E cubic_meters \in Usages, outdoor_temp \in Temps :
        /\ calculator.class = "GasCalculator"
        /\ Len(calculator.calculation_history) < MaxLog
        /\ calculator' = Logged(calculator, cubic_meters, now)
        /\ cost_calls' = cost_calls + 1
        /\ last' = [NoCall EXCEPT !.op = "calculate_heating_cost",
                                  !.usage = cubic_meters, !.arg = outdoor_temp,
                                  !.cost = Times(Cost(calculator, cubic_meters),
                                                 HeatingFactor(outdoor_temp)),
                                  !.returned = TRUE]
        /\ UNCHANGED <<now, avars, gvars>>

calculate_cooling_cost ==
    \E kwh_usage \in Usages, outdoor_temp \in Temps :
        /\ calculator.class = "AirConditioningCalculator"
        /\ Len(calculator.calculation_history) < MaxLog
        /\ calculator' = Logged(calculator, kwh_usage, now)
        /\ cost_calls' = cost_calls + 1
        /\ last' = [NoCall EXCEPT !.op = "calculate_cooling_cost",
                                  !.usage = kwh_usage, !.arg = outdoor_temp,
                                  !.cost = Times(Cost(calculator, kwh_usage),
                                                 CoolingFactor(outdoor_temp)),
                                  !.returned = TRUE]
        /\ UNCHANGED <<now, avars, gvars>>

\* ElectricityCalculator.recommend_savings(monthly_usage): the values of the
\* dict it returns, in key order; the method assigns nothing
electricity_recommend_savings ==
    \E monthly_usage \in MonthlyUsages :
        /\ calculator.class = "ElectricityCalculator"
        /\ last' = [NoCall EXCEPT !.op = "recommend_savings",
                                  !.usage = monthly_usage,
                                  !.recommendations =
                                      recommend_savings(monthly_usage),
                                  !.returned = TRUE]
        /\ UNCHANGED <<calculator, cost_calls, now, avars, gvars>>

Next ==
    \/ Tick
    \/ create_calculator
    \/ calculate_cost
    \/ get_efficiency_rating
    \/ calculate_peak_cost
    \/ calculate_heating_cost
    \/ calculate_cooling_cost
    \/ electricity_recommend_savings

Spec == Init /\ [][Next]_vars

(* --------------------------- analyzer actions -------------------------- *)
\* an analyzer as constructed; the calculator in hand plays no part
InitA ==
    /\ calculator = NewCalculator("ElectricityCalculator", << >>)
    /\ cost_calls = 0
    /\ last = NoCall
    /\ now = 0
    /\ analyzer = NewAnalyzer
    /\ analyses = 0
    /\ result = NoResult
    /\ NoThreads

\* EGSAAnalyzer.comprehensive_analysis(utility_data): the calculators log
\* every cost computed before an entry without 'usage' raises KeyError; the
\* analysis is appended to the history only when none does
comprehensive_analysis ==
    \E utility_data \in UtilityData :
        /\ Len(analyzer.analysis_history) < MaxHistory
        /\ \A t \in Costed(utility_data) :
              Len(analyzer[t].calculation_history) < MaxLog
        /\ IF FirstKeyError(utility_data) <= 4
           THEN /\ analyzer' = Analysed(analyzer, utility_data, now)
                /\ result' = [NoResult EXCEPT !.op = "comprehensive_analysis",
                                              !.utility_data = utility_data,
                                              !.raised = "KeyError"]
                /\ UNCHANGED analyses
           ELSE LET analysis == Analysis(analyzer, utility_data, now)
                IN  /\ analyzer' = Analysed(analyzer, utility_data, now)
                    /\ result' = [NoResult EXCEPT !.op = "comprehensive_analysis",
                                                  !.utility_data = utility_data,
                                                  !.returned = TRUE,
                                                  !.analysis = analysis]
                    /\ analyses' = analyses + 1
        /\ UNCHANGED <<calculator, cost_calls, last, now, gvars>>

\* EGSAAnalyzer.generate_monthly_report(start_date, end_date)
generate_monthly_report ==
    \E start_date \in Dates, end_date \in Dates :
        /\ result' = [NoResult EXCEPT !.op = "generate_monthly_report",
                                      !.start_date = start_date,
                                      !.end_date = end_date,
                                      !.returned = TRUE,
                                      !.report = MonthlyReport(analyzer, start_date,
                                                               end_date)]
        /\ analyzer' = Summarized(analyzer, start_date, end_date)
        /\ UNCHANGED <<calculator, cost_calls, last, now, analyses, gvars>>

NextA ==
    \/ Tick
    \/ comprehensive_analysis
    \/ generate_monthly_report

SpecA == InitA /\ [][NextA]_vars

(* --------------------------- report actions ---------------------------- *)
\* the analyzer after one comprehensive_analysis for each of the samples
RECURSIVE AnalysedAll(_, _)
AnalysedAll(self, samples) ==
    IF samples = << >> THEN self
    ELSE AnalysedAll(Analysed(self, Head(samples).utility_data, Head(samples).t),
                     Tail(samples))

\* an analyzer that has analysed up to MaxHistory + 1 steam samples, one
\* after the other as the clock went on, and is now asked for reports
InitR ==
    /\ calculator = NewCalculator("ElectricityCalculator", << >>)
    /\ cost_calls = 0
    /\ last = NoCall
    /\ NoThreads
    /\ \E n \in 0..(MaxHistory + 1) :
          \E usages \in [1..n -> SteamUsages], times \in [1..n -> 0..MaxTime] :
              LET samples ==
                      [i \in 1..n |->
                          [utility_data |-> [steam |-> [usage |-> usages[i]]],
                           t |-> times[i]]]
                  before == AnalysedAll(NewAnalyzer, SubSeq(samples, 1, n - 1))
              IN  /\ \A i \in 1..n : \A j \in i..n : times[i] <= times[j]
                  /\ analyzer = AnalysedAll(NewAnalyzer, samples)
                  /\ analyses = n
                  /\ now = IF n = 0 THEN 0 ELSE times[n]
                  /\ result =
                        IF n = 0 THEN NoResult
                        ELSE [NoResult EXCEPT
                                !.op = "comprehensive_analysis",
                                !.utility_data = samples[n].utility_data,
                                !.returned = TRUE,
                                !.analysis = Analysis(before,
                                                      samples[n].utility_data,
                                                      times[n])]

NextR == generate_monthly_report

SpecR == InitR /\ [][NextR]_vars

(* ------------------------- get_analyzer actions ------------------------ *)
\* the reports view on several threads: each request calls get_analyzer and
\* runs one comprehensive_analysis on what it returns
InitG ==
    /\ calculator = NewCalculator("ElectricityCalculator", << >>)
    /\ cost_calls = 0
    /\ last = NoCall
    /\ now = 0
    /\ analyzer = NewAnalyzer
    /\ analyses = 0
    /\ result = NoResult
    /\ NoThreads

\* if _global_analyzer is None:
get_analyzer_test ==
    \E t \in Threads :
        /\ pc[t] = "idle"
        /\ pc' = [pc EXCEPT ![t] = IF global_analyzer = 0 THEN "construct"
                                   ELSE "return"]
        /\ UNCHANGED <<calculator, cost_calls, last, now, avars,
                       global_analyzer, instances, histories, appended, held>>

\* _global_analyzer = EGSAAnalyzer()
get_analyzer_assign ==
    \E t \in Threads :
        /\ pc[t] = "construct"
        /\ instances' = instances + 1
        /\ histories' = Append(histories, 0)
        /\ global_analyzer' = instances + 1
        /\ pc' = [pc EXCEPT ![t] = "return"]
        /\ UNCHANGED <<calculator, cost_calls, last, now, avars, appended, held>>

\* return _global_analyzer
get_analyzer_return ==
    \E t \in Threads :
        /\ pc[t] = "return"
        /\ held' = [held EXCEPT ![t] = global_analyzer]
        /\ pc' = [pc EXCEPT ![t] = "analyse"]
        /\ UNCHANGED <<calculator, cost_calls, last, now, avars,
                       global_analyzer, instances, histories, appended>>

\* analyzer.comprehensive_analysis(utility_data) in the view: one record
\* appended to the history of the instance the thread was given
view_analysis ==
    \E t \in Threads :
        /\ pc[t] = "analyse"
        /\ appended < MaxHistory
        /\ histories' = [histories EXCEPT ![held[t]] = @ + 1]
        /\ appended' = appended + 1
        /\ pc' = [pc EXCEPT ![t] = "idle"]
        /\ UNCHANGED <<calculator, cost_calls, last, now, avars,
                       global_analyzer, instances, held>>

NextG ==
    \/ get_analyzer_test
    \/ get_analyzer_assign
    \/ get_analyzer_return
    \/ view_analysis

SpecG == InitG /\ [][NextG]_vars

(* ------------------------------ claims --------------------------------- *)
CostOps == {"calculate_cost", "calculate_peak_cost",
            "calculate_heating_cost", "calculate_cooling_cost"}

\* a step that completes one calculate_cost on the calculator in hand
CostStep == cost_calls' = cost_calls + 1

\* usage * rate of the call recorded in `call`, in millionths
BaseOf(call, self) == call.usage * self.rate_per_unit * 1000

\* C1: calculate_cost(usage), usage >= 0, returns usage * rate rounded to
\* 2 decimal places.
C1_CostRoundedToCents ==
    (last.op = "calculate_cost" /\ last.usage >= 0)
        => (last.returned /\ last.cost = Round2(BaseOf(last, calculator)))

\* C2: calculate_cost with usage < 0 raises InvalidUsage, returns no cost
\* and leaves the calculation log as it was.
C2_NegativeUsageRejected ==
    [][(last'.op = "calculate_cost" /\ last'.usage < 0
            /\ (last' # last \/ cost_calls' # cost_calls))
        => (/\ last'.raised = "InvalidUsage"
            /\ ~last'.returned
            /\ calculator' = calculator)]_vars

Ordinal(rating) ==
    CASE rating = "Excellent" -> 4
      [] rating = "Good" -> 3
      [] rating = "Average" -> 2
      [] rating = "Poor" -> 1

\* the rating the thresholds give a recorded get_efficiency_rating call
ThresholdsMet(call) ==
    LET u == call.usage
        b == call.arg
    IN  IF b > 0
        THEN /\ (call.rating = "Excellent") <=> (10 * u <= 8 * b)
             /\ (call.rating = "Good") <=> (8 * b < 10 * u /\ u <= b)
             /\ (call.rating = "Average") <=> (b < u /\ 10 * u <= 12 * b)
             /\ (call.rating = "Poor") <=> (10 * u > 12 * b)
        ELSE call.rating = "Good"

\* C3: with benchmark > 0 the rating is Excellent iff ratio <= 0.8, Good iff
\* it is in (0.8, 1.0], Average iff in (1.0, 1.2], Poor iff > 1.2; with
\* benchmark <= 0 it is Good; of two calls with positive benchmarks the one
\* with the larger ratio never has the higher rating.
C3_RatingThresholds ==
    [][last'.op = "get_efficiency_rating"
        => /\ ThresholdsMet(last')
           /\ (last.op = "get_efficiency_rating" /\ last.arg > 0 /\ last'.arg > 0
                  /\ last.usage * last'.arg <= last'.usage * last.arg)
               => Ordinal(last.rating) >= Ordinal(last'.rating)]_vars

\* a rating exactly on the 0.8 boundary
C3_Witness ==
    /\ last.op = "get_efficiency_rating"
    /\ last.arg > 0
    /\ 10 * last.usage = 8 * last.arg
    /\ last.rating = "Excellent"

\* C4: get_efficiency_rating leaves the calculation log as it was, and its
\* result is the one the same arguments give on the calculator as constructed,
\* whatever calculate_cost calls came before.
C4_RatingPure ==
    [][(last'.op = "get_efficiency_rating" /\ now' = now)
        => /\ calculator' = calculator
           /\ cost_calls' = cost_calls
           /\ last'.rating =
                 Rating(NewCalculator(calculator.class,
                                      <<calculator.rate_per_unit>>),
                        last'.usage, last'.arg)]_vars

\* a rating asked of a calculator that has already logged two costs
C4_Witness ==
    /\ last.op = "get_efficiency_rating"
    /\ last.returned
    /\ Len(calculator.calculation_history) = 2

\* the usage, rate and cost of a log entry
Recorded(entry) == [usage |-> entry.usage, rate |-> entry.rate, cost |-> entry.cost]

\* C5: each calculate_cost appends one entry with the call's usage, rate and
\* cost to the end of the log, no other operation touches the log, and the
\* log length is the number of calculate_cost calls made on the calculator.
C5_LogAppendOnly ==
    [][LET old == calculator.calculation_history
           new == calculator'.calculation_history
       IN  /\ Len(new) = cost_calls'
           /\ CostStep =>
                 /\ last'.op \in CostOps
                 /\ SubSeq(new, 1, Len(old)) = old
                 /\ Len(new) = Len(old) + 1
                 /\ Recorded(new[Len(new)]) =
                       [usage |-> last'.usage,
                        rate |-> calculator.rate_per_unit,
                        cost |-> BaseOf(last', calculator)]
           /\ (~CostStep /\ ~(last'.op = "create_calculator" /\ last'.returned))
                 => new = old]_vars

\* two calls logged in call order
C5_Witness ==
    /\ cost_calls = 2
    /\ Len(calculator.calculation_history) = 2
    /\ last.op \in CostOps
    /\ calculator.calculation_history[2].usage = last.usage
    /\ calculator.calculation_history[1].usage # last.usage

\* C6: calculate_peak_cost is 1.5 x calculate_cost(usage) for an hour in
\* 17..21 and calculate_cost(usage) for any other hour; the cost at hour 18
\* is 1.5 times the cost at hour 10 for the same usage.
C6_PeakSurcharge ==
    [][last'.op = "calculate_peak_cost"
        => /\ IF last'.arg \in 17..21
              THEN 10 * last'.cost = 15 * BaseOf(last', calculator')
              ELSE last'.cost = BaseOf(last', calculator')
           /\ (last.op = "calculate_peak_cost" /\ last.arg = 10
                  /\ last'.arg = 18 /\ last'.usage = last.usage /\ CostStep)
               => 10 * last'.cost = 15 * last.cost]_vars

\* a positive cost at the last hour of the window, at the default rate
C6_Witness ==
    /\ last.op = "calculate_peak_cost"
    /\ last.arg = 21
    /\ calculator.rate_per_unit = 120
    /\ last.usage > 0
    /\ 10 * last.cost = 15 * BaseOf(last, calculator)

\* C7: for a usage >= 0, calculate_heating_cost is the base cost times
\* max(0.5, (20 - outdoor_temp) / 20); the factor is 0.5 for every
\* outdoor_temp >= 40; of two calls with the same usage the colder one never
\* costs less.
C7_HeatingCost ==
    [][(last'.op = "calculate_heating_cost" /\ last'.usage >= 0)
        => /\ 20 * last'.cost =
                 Max(10 * BaseOf(last', calculator'),
                     (20 - last'.arg) * BaseOf(last', calculator'))
           /\ last'.arg >= 40 => 2 * last'.cost = BaseOf(last', calculator')
           /\ (last.op = "calculate_heating_cost" /\ CostStep
                  /\ last.usage = last'.usage)
               => /\ last.arg <= last'.arg => last.cost >= last'.cost
                  /\ last.arg >= last'.arg => last.cost <= last'.cost]_vars

\* a heating cost at 40 degrees, after one at another temperature for the
\* same usage
C7_Witness ==
    /\ last.op = "calculate_heating_cost"
    /\ last.arg = 40
    /\ last.usage > 0
    /\ calculator.rate_per_unit > 0
    /\ 2 * last.cost = BaseOf(last, calculator)
    /\ Len(calculator.calculation_history) = 2
    /\ calculator.calculation_history[1].usage = last.usage

\* C8 as stated: every cost operation, for usage >= 0, returns a cost that is
\* never negative and is usage x effective_rate with effective_rate >= the
\* base rate.
C8_EffectiveRateAtLeastBase ==
    (last.op \in CostOps /\ last.usage >= 0)
        => (last.cost >= 0 /\ last.cost >= BaseOf(last, calculator))

\* C8 amended: for usage >= 0 the cost is never negative and is usage x
\* effective_rate with effective_rate >= the base rate for calculate_cost and
\* calculate_peak_cost, >= 0.5 x the base rate for calculate_heating_cost and
\* >= 0.8 x the base rate for calculate_cooling_cost.
C8_EffectiveRateFloors ==
    (last.op \in CostOps /\ last.usage >= 0)
        => /\ last.cost >= 0
           /\ last.op \in {"calculate_cost", "calculate_peak_cost"}
                 => last.cost >= BaseOf(last, calculator)
           /\ last.op = "calculate_heating_cost"
                 => 2 * last.cost >= BaseOf(last, calculator)
           /\ last.op = "calculate_cooling_cost"
                 => 10 * last.cost >= 8 * BaseOf(last, calculator)

\* a cooling cost below the base cost, on the 0.8 floor
C8_Witness ==
    /\ last.op = "calculate_cooling_cost"
    /\ last.usage > 0
    /\ calculator.rate_per_unit > 0
    /\ last.cost < BaseOf(last, calculator)
    /\ 10 * last.cost = 8 * BaseOf(last, calculator)

\* C9: for a usage >= 0, calculate_cooling_cost is the base cost times
\* max(0.8, (outdoor_temp - 70) / 30 + 1), the quotient held to three decimal
\* places; the factor is 0.8 for every outdoor_temp <= 64; of two calls with
\* the same usage the hotter one never costs less.
C9_CoolingCost ==
    [][(last'.op = "calculate_cooling_cost" /\ last'.usage >= 0)
        => /\ \E factor \in {800, (1000 * (last'.arg - 40)) \div 30,
                                (1000 * (last'.arg - 40)) \div 30 + 1} :
                 /\ last'.cost = last'.usage * calculator'.rate_per_unit * factor
                 /\ IF last'.arg <= 64
                    THEN factor = 800
                    ELSE /\ 30 * factor - 1000 * (last'.arg - 40) <= 15
                         /\ 1000 * (last'.arg - 40) - 30 * factor <= 15
           /\ (last.op = "calculate_cooling_cost" /\ CostStep
                  /\ last.usage = last'.usage)
               => /\ last.arg <= last'.arg => last.cost <= last'.cost
                  /\ last.arg >= last'.arg => last.cost >= last'.cost]_vars

\* a cooling cost at 64 degrees, after one at another temperature for the
\* same usage
C9_Witness ==
    /\ last.op = "calculate_cooling_cost"
    /\ last.arg = 64
    /\ last.usage > 0
    /\ calculator.rate_per_unit > 0
    /\ 10 * last.cost = 8 * BaseOf(last, calculator)
    /\ Len(calculator.calculation_history) = 2
    /\ calculator.calculation_history[1].usage = last.usage

\* the class each recognised identifier stands for
Variant ==
    {<<"electricity", "ElectricityCalculator">>, <<"gas", "GasCalculator">>,
     <<"steam", "SteamCalculator">>,
     <<"air_conditioning", "AirConditioningCalculator">>}

\* C10: create_calculator returns a new calculator of the matching variant
\* for each of the four identifiers; for any other identifier it raises the
\* unknown-utility-type error (a ValueError) and constructs nothing.
C10_Factory ==
    [][(last'.op = "create_calculator" /\ now' = now)
        => IF last'.utility_type \in
                 {"electricity", "gas", "steam", "air_conditioning"}
           THEN /\ last'.returned
                /\ last'.raised = ""
                /\ <<last'.utility_type, calculator'.class>> \in Variant
                /\ calculator'.calculation_history = << >>
                /\ cost_calls' = 0
           ELSE /\ ~last'.returned
                /\ last'.raised = "ValueError"
                /\ calculator' = calculator
                /\ cost_calls' = cost_calls]_vars

\* an unknown identifier refused while a used calculator is in hand
C10_Witness ==
    /\ last.op = "create_calculator"
    /\ last.utility_type = "unknown"
    /\ last.raised = "ValueError"
    /\ Len(calculator.calculation_history) > 0

\* C22: the electricity savings recommendations for a usage u are, in this
\* order and without repetition, the high-usage, moderate-usage and general
\* tips when u > 500, the moderate-usage and general tips when
\* 300 < u <= 500, and the general tip alone when u <= 300; the general tip
\* is always there and always last.
C22_TieredTips ==
    (last.op = "recommend_savings" /\ last.returned) =>
        LET tips == last.recommendations
            u == last.usage
        IN  /\ tips = IF u > 500 THEN <<high_usage, moderate_usage, general>>
                      ELSE IF u > 300 THEN <<moderate_usage, general>>
                      ELSE <<general>>
            /\ \A i, j \in 1..Len(tips) : tips[i] = tips[j] => i = j
            /\ Len(tips) > 0
            /\ tips[Len(tips)] = general
            /\ \A i \in 1..(Len(tips) - 1) : tips[i] # general

\* tips asked at both thresholds' edge: exactly 500 gives two tips
C22_Witness ==
    /\ last.op = "recommend_savings"
    /\ last.returned
    /\ last.usage = 500
    /\ Len(last.recommendations) = 2
    /\ Len(calculator.calculation_history) > 0

\* what each of the operations that return a cost returns on self
CostOn(self, call) ==
    CASE call.op = "calculate_cost" -> Cost(self, call.usage)
      [] call.op = "calculate_peak_cost" ->
            PeakCost(Cost(self, call.usage), call.arg)
      [] call.op = "calculate_heating_cost" ->
            Times(Cost(self, call.usage), HeatingFactor(call.arg))
      [] call.op = "calculate_cooling_cost" ->
            Times(Cost(self, call.usage), CoolingFactor(call.arg))

\* C24: a cost or rating operation returns, on a calculator with any log,
\* what the same operation with the same arguments returns on a calculator
\* of the same variant and rate whose log is empty; so any two calculators
\* of one variant and rate agree, whatever was called on each before.
C24_HistoryIndependent ==
    [][(last'.returned /\ now' = now)
        => LET unused == NewCalculator(calculator.class,
                                       <<calculator.rate_per_unit>>)
           IN  /\ last'.op \in CostOps =>
                     last'.cost = CostOn(unused, last')
               /\ last'.op = "get_efficiency_rating" =>
                     last'.rating = Rating(unused, last'.usage, last'.arg)]_vars

\* a cost returned by a calculator whose log holds two different usages
C24_Witness ==
    /\ last.op \in CostOps
    /\ last.returned
    /\ last.usage = 5
    /\ Len(calculator.calculation_history) = 2
    /\ calculator.calculation_history[1].usage
          # calculator.calculation_history[2].usage
    /\ calculator.calculation_history[1].cost # 0

(* -------------------------- analyzer claims ---------------------------- *)
history == analyzer.analysis_history

\* the last call was a comprehensive_analysis that returned its analysis
AnalysisReturned == result.op = "comprehensive_analysis" /\ result.returned

\* C11: the keys of a returned analysis's efficiency_scores are exactly the
\* ones of the four utility types that are keys of the input; a type not in
\* the input is not scored, no other key appears, and the records of the
\* history have keys among the four types only.
C11_ScoredTypes ==
    /\ AnalysisReturned =>
          /\ DOMAIN result.analysis.efficiency_scores =
                {t \in {"electricity", "gas", "steam", "air_conditioning"} :
                    t \in DOMAIN result.utility_data}
          /\ Len(history) > 0
          /\ history[Len(history)] = result.analysis
    /\ \A i \in 1..Len(history) :
          DOMAIN history[i].efficiency_scores
              \subseteq {"electricity", "gas", "steam", "air_conditioning"}

C11_Witness ==
    /\ AnalysisReturned
    /\ "water" \in DOMAIN result.utility_data
    /\ "electricity" \notin DOMAIN result.utility_data
    /\ DOMAIN result.analysis.efficiency_scores = {"gas", "steam"}

\* C12: an input with electricity only, with a usage u and neither benchmark
\* nor hour, gives total_cost = u * 0.12 and rates electricity as u against
\* 400; u = 1000 gives 120.00 and Poor.
C12_ElectricityOnly ==
    (/\ AnalysisReturned
     /\ DOMAIN result.utility_data = {"electricity"}
     /\ DOMAIN result.utility_data.electricity = {"usage"})
        => LET u == result.utility_data.electricity.usage
               score == result.analysis.efficiency_scores.electricity
           IN  /\ result.analysis.total_cost = u * 120 * 1000
               /\ ThresholdsMet([usage |-> u, arg |-> 400, rating |-> score])
               /\ u = 1000 => /\ result.analysis.total_cost = 120000000
                              /\ score = "Poor"

C12_Witness ==
    /\ AnalysisReturned
    /\ result.utility_data = [electricity |-> [usage |-> 1000]]
    /\ result.analysis.total_cost = 120000000
    /\ result.analysis.efficiency_scores.electricity = "Poor"

\* the cost of an electricity sample at its hour: 1.5 times the plain cost
\* from 17 to 21 o'clock
PeakAdjusted(data) ==
    IF "hour" \in DOMAIN data /\ 17 <= data.hour /\ data.hour <= 21
    THEN (data.usage * 120 * 1000 * 15) \div 10
    ELSE data.usage * 120 * 1000

\* the cost the variant's own cost method gives a sample
VariantCost(utility_type, data) ==
    IF utility_type = "electricity" THEN PeakAdjusted(data)
    ELSE UtilityCost(NewAnalyzer, utility_type, data)

\* C13: total_cost is the sum over the types present of the variant's own
\* cost: plain for steam, adjusted by the sample's hour for electricity, by
\* the outdoor temperature for gas and air conditioning.
C13_VariantSpecificCost ==
    AnalysisReturned =>
        LET cost(t) == IF t \in DOMAIN result.utility_data
                       THEN VariantCost(t, result.utility_data[t]) ELSE 0
        IN  result.analysis.total_cost =
                cost("electricity") + cost("gas") + cost("steam")
                    + cost("air_conditioning")

\* the benchmarks documented for samples that bring none
DocumentedBenchmark ==
    [electricity |-> 400, gas |-> 100, steam |-> 50, air_conditioning |-> 200]

\* C14: each type present is rated against the sample's benchmark when it
\* has one, else against the default of its type: electricity 400, gas 100,
\* steam 50, air_conditioning 200.
C14_Benchmarks ==
    AnalysisReturned =>
        \A t \in DOMAIN result.analysis.efficiency_scores :
            LET data == result.utility_data[t]
                benchmark == IF "benchmark" \in DOMAIN data
                             THEN data.benchmark ELSE DocumentedBenchmark[t]
            IN  ThresholdsMet([usage |-> data.usage, arg |-> benchmark,
                               rating |-> result.analysis.efficiency_scores[t]])

C14_Witness ==
    /\ AnalysisReturned
    /\ {"steam", "air_conditioning"} \subseteq DOMAIN result.utility_data
    /\ "benchmark" \in DOMAIN result.utility_data.steam
    /\ "benchmark" \notin DOMAIN result.utility_data.air_conditioning
    /\ result.analysis.efficiency_scores.steam = "Good"
    /\ result.analysis.efficiency_scores.air_conditioning = "Average"

\* the savings tips of a monthly usage, in the order they are given
SavingsTips(u) ==
    IF u > 500 THEN <<high_usage, moderate_usage, general>>
    ELSE IF u > 300 THEN <<moderate_usage, general>>
    ELSE <<general>>

\* C15: with electricity in the input, environmental_impact holds co2_kg =
\* usage * 0.5 and recommendations are the electricity tips in order; without
\* electricity both are empty, whatever else the input holds.
C15_ElectricityExtras ==
    AnalysisReturned =>
        IF "electricity" \in DOMAIN result.utility_data
        THEN LET u == result.utility_data.electricity.usage
             IN  /\ result.analysis.environmental_impact = [co2_kg |-> u * 5]
                 /\ result.analysis.recommendations = SavingsTips(u)
        ELSE /\ DOMAIN result.analysis.environmental_impact = {}
             /\ result.analysis.recommendations = << >>

C15_Witness ==
    /\ \E i \in 1..Len(history) :
          /\ Len(history[i].recommendations) = 3
          /\ history[i].environmental_impact = [co2_kg |-> 5000]
    /\ \E i \in 1..Len(history) :
          /\ "gas" \in DOMAIN history[i].efficiency_scores
          /\ history[i].recommendations = << >>
          /\ DOMAIN history[i].environmental_impact = {}

\* C16: a successful comprehensive_analysis appends the record it returns to
\* the end of the history and changes nothing before it; no other step
\* changes the history; its length is the number of successful analyses.
C16_HistoryAppendOnly ==
    [][LET old == analyzer.analysis_history
           new == analyzer'.analysis_history
       IN  /\ Len(new) = analyses'
           /\ IF analyses' = analyses + 1
              THEN /\ result'.op = "comprehensive_analysis"
                   /\ result'.returned
                   /\ new = Append(old, result'.analysis)
              ELSE new = old]_vars

C16_Witness ==
    /\ result.op = "generate_monthly_report"
    /\ analyses = 2
    /\ Len(history) = 2
    /\ history[1].timestamp = history[2].timestamp
    /\ history[1].total_cost > history[2].total_cost

\* a utility_data in which an entry of one of the four types has no 'usage'
Malformed(utility_data) ==
    \E t \in {"electricity", "gas", "steam", "air_conditioning"} :
        /\ t \in DOMAIN utility_data
        /\ "usage" \notin DOMAIN utility_data[t]

\* C17: comprehensive_analysis of an input with an entry that has no 'usage'
\* raises KeyError (the malformed-sample error), returns no record and
\* leaves the history as it was, whichever entry it is and whatever valid
\* entries come with it.
C17_MalformedAtomic ==
    [][(/\ result'.op = "comprehensive_analysis"
        /\ Malformed(result'.utility_data))
        => /\ result'.raised = "KeyError"
           /\ ~result'.returned
           /\ analyzer'.analysis_history = analyzer.analysis_history]_vars

C17_Witness ==
    /\ result.op = "comprehensive_analysis"
    /\ result.raised = "KeyError"
    /\ "usage" \in DOMAIN result.utility_data.electricity
    /\ "gas" \in DOMAIN result.utility_data
    /\ Len(history) = 1
    /\ Len(analyzer.electricity.calculation_history) = 2

\* the last call was a generate_monthly_report
ReportMade == result.op = "generate_monthly_report"

\* the places in the history of the records within the period of the report
InPeriod ==
    {i \in 1..Len(history) : /\ result.start_date <= history[i].timestamp
                             /\ history[i].timestamp <= result.end_date}

RECURSIVE SumCosts(_)
SumCosts(S) ==
    IF S = {} THEN 0
    ELSE LET i == CHOOSE j \in S : TRUE
         IN  history[i].total_cost + SumCosts(S \ {i})

RECURSIVE SumOrdinals(_, _)
SumOrdinals(S, t) ==
    IF S = {} THEN 0
    ELSE LET i == CHOOSE j \in S : TRUE
         IN  Ordinal(history[i].efficiency_scores[t]) + SumOrdinals(S \ {i}, t)

\* C20: average_efficiency has a key for exactly the types scored in some
\* record of the period, and its value is the rating whose ordinal is the
\* mean of the type's ordinals over the records that scored it, rounded to
\* the nearest integer, a half rounded up.
C20_AverageHalfUp ==
    (ReportMade /\ InPeriod # {})
        => /\ "average_efficiency" \in DOMAIN result.report
           /\ DOMAIN result.report.average_efficiency =
                 {t \in {"electricity", "gas", "steam", "air_conditioning"} :
                     \E i \in InPeriod : t \in DOMAIN history[i].efficiency_scores}
           /\ \A t \in DOMAIN result.report.average_efficiency :
                 LET scored == {i \in InPeriod :
                                   t \in DOMAIN history[i].efficiency_scores}
                     total == SumOrdinals(scored, t)
                     count == Cardinality(scored)
                 IN  Ordinal(result.report.average_efficiency[t])
                        = (2 * total + count) \div (2 * count)

\* C23: when comprehensive_analysis fails because an entry lacks 'usage', the
\* calculation logs of the analyzer's four calculators are what they were
\* before the call, also when valid entries were processed first.
C23_FailedAnalysisKeepsLogs ==
    [][(/\ result'.op = "comprehensive_analysis"
        /\ Malformed(result'.utility_data)
        /\ result'.raised = "KeyError"
        /\ analyses' = analyses)
        => \A t \in {"electricity", "gas", "steam", "air_conditioning"} :
              analyzer'[t].calculation_history
                  = analyzer[t].calculation_history]_vars

\* C25: with a clock that does not go back and one call at a time, the
\* timestamps of the history are non-decreasing in the order of the history,
\* and no analysis or report changes a record that is already there.
C25_HistoryOrderedImmutable ==
    [][LET old == analyzer.analysis_history
           new == analyzer'.analysis_history
       IN  /\ Len(old) <= Len(new)
           /\ \A i \in 1..Len(old) : i <= Len(new) => new[i] = old[i]
           /\ \A i, j \in 1..Len(new) :
                 i <= j => new[i].timestamp <= new[j].timestamp]_vars

\* two records made at different times, and a report made after them
C25_Witness ==
    /\ ReportMade
    /\ Len(history) = 2
    /\ history[1].timestamp < history[2].timestamp
    /\ history[1].total_cost > history[2].total_cost

\* C26: generate_monthly_report, for every period, leaves the history and
\* the four calculators' logs as they were; its result is determined by the
\* history and the period, so the same report asked twice in a row is the
\* same.
C26_ReportReadOnly ==
    [][(result'.op = "generate_monthly_report" /\ now' = now)
        => /\ analyzer' = analyzer
           /\ analyses' = analyses
           /\ result'.returned
           /\ result'.report = MonthlyReport(analyzer', result'.start_date,
                                              result'.end_date)
           /\ (/\ result.op = "generate_monthly_report"
               /\ result.start_date = result'.start_date
               /\ result.end_date = result'.end_date)
                 => result'.report = result.report]_vars

\* a report over part of a history of two records, the calculators' logs
\* holding the costs of both
C26_Witness ==
    /\ ReportMade
    /\ result.returned
    /\ Len(history) = 2
    /\ Len(analyzer.electricity.calculation_history) = 2
    /\ Cardinality(InPeriod) = 1
    /\ "total_analyses" \in DOMAIN result.report

\* the analyzer with the records outside the report's period taken out of
\* its history
WithinPeriodOnly ==
    [analyzer EXCEPT !.analysis_history =
        SelectSeq(@, LAMBDA analysis :
                        /\ result.start_date <= analysis.timestamp
                        /\ analysis.timestamp <= result.end_date)]

\* C28: over a period with at least one record, the report's total_cost is
\* the sum of total_cost over the records with start <= timestamp <= end
\* (as the float the report holds), and it is the total the same report has
\* when the records outside the period are not in the history at all.
C28_TotalOfPeriod ==
    (ReportMade /\ InPeriod # {})
        => /\ "total_cost" \in DOMAIN result.report
           /\ result.report.total_cost = Float(SumCosts(InPeriod))
           /\ result.report.total_cost =
                 MonthlyReport(WithinPeriodOnly, result.start_date,
                               result.end_date).total_cost

\* a report over the first of two records, the second one costing something
C28_Witness ==
    /\ ReportMade
    /\ Len(history) = 2
    /\ InPeriod = {1}
    /\ history[2].total_cost > 0
    /\ "total_cost" \in DOMAIN result.report

(* ----------------------------- report claims -------------------------- *)
\* C21: with fewer than 2 records in the period the trend is "Insufficient
\* data"; otherwise, older being the total_cost of the first record of the
\* period in the order of the history and recent that of the last, it is
\* Increasing iff recent > 1.1 * older, Decreasing iff recent < 0.9 * older
\* and Stable otherwise, whatever the records in between.
C21_CostTrend ==
    (ReportMade /\ "cost_trend" \in DOMAIN result.report)
        => IF Cardinality(InPeriod) < 2
           THEN result.report.cost_trend = "Insufficient data"
           ELSE LET first == CHOOSE i \in InPeriod : \A j \in InPeriod : i <= j
                    final == CHOOSE i \in InPeriod : \A j \in InPeriod : j <= i
                    older == history[first].total_cost
                    recent == history[final].total_cost
                IN  result.report.cost_trend =
                        IF 10 * recent > 11 * older THEN "Increasing"
                        ELSE IF 10 * recent < 9 * older THEN "Decreasing"
                        ELSE "Stable"

(* ------------------------ get_analyzer claims -------------------------- *)
\* C27: get_analyzer gives every call the same instance, also when the
\* first calls run on threads that interleave: no second instance is
\* constructed, every call's result is the one instance, and every record
\* appended is in the history of the instance later calls get.
C27_OneAnalyzer ==
    /\ instances <= 1
    /\ \A t \in Threads : held[t] # 0 => held[t] = global_analyzer
    /\ global_analyzer # 0 => histories[global_analyzer] = appended
====
